---- MODULE Spec2Model ----
(***************************************************************************)
(* ScheduleMe: weekly shift assignment.                                    *)
(*   AvailMatrBuilder.py  load_input_from_excel: rows of raw names and     *)
(*                        per-day interval cells -> students list and      *)
(*                        availability matrix                              *)
(*   solver.py            CP-SAT model (coverage, availability, weekly     *)
(*                        cap, min-max fairness), solve, report            *)
(* Times are fractional hours in the source (hour + minute/60.0); the      *)
(* model keeps them as whole minutes (60 * hours), which orders and        *)
(* subtracts exactly as the floats do for minute-resolution values.        *)
(* The CP-SAT solver is outside the repository: Solve picks any outcome    *)
(* the solver's contract allows for the model built by solver.py.          *)
(***************************************************************************)
EXTENDS Integers, Sequences, FiniteSets, TLC

VARIABLES df, catalog, pc, rowIdx, students, availability_matrix, error,
          status, x, total_hours, max_h, min_h, output

vars == <<df, catalog, pc, rowIdx, students, availability_matrix, error,
          status, x, total_hours, max_h, min_h, output>>

(* ------------------------------------------------------------------ *)
(* Bounds of the model                                                  *)
(* ------------------------------------------------------------------ *)
MaxRows == 3
MaxItems == 2

(* ------------------------------------------------------------------ *)
(* Generic helpers                                                      *)
(* ------------------------------------------------------------------ *)
Range(s) == {s[i] : i \in 1..Len(s)}

RECURSIVE SumSeq(_)
SumSeq(s) == IF s = <<>> THEN 0 ELSE Head(s) + SumSeq(Tail(s))

SetMax(S) == CHOOSE m \in S : \A n \in S : n <= m
SetMin(S) == CHOOSE m \in S : \A n \in S : m <= n

SeqsUpTo(S, n) == UNION {[1..k -> S] : k \in 0..n}

(* ------------------------------------------------------------------ *)
(* AvailMatrBuilder.py: the shift catalog                               *)
(* ------------------------------------------------------------------ *)
Hr(h, m) == h * 60 + m

SHIFTS ==
    << <<"S1",  "Mon", Hr(7,15), Hr(9,0),  3>>,
       <<"S2",  "Mon", Hr(9,0),  Hr(12,0), 4>>,
       <<"S3",  "Mon", Hr(12,0), Hr(15,0), 4>>,
       <<"S4",  "Mon", Hr(15,0), Hr(17,0), 4>>,
       <<"S5",  "Mon", Hr(17,0), Hr(19,0), 3>>,
       <<"S6",  "Tue", Hr(7,15), Hr(9,0),  3>>,
       <<"S7",  "Tue", Hr(9,0),  Hr(12,0), 4>>,
       <<"S8",  "Tue", Hr(12,0), Hr(15,0), 4>>,
       <<"S9",  "Tue", Hr(15,0), Hr(17,0), 4>>,
       <<"S10", "Tue", Hr(17,0), Hr(19,0), 3>>,
       <<"S11", "Wed", Hr(7,15), Hr(9,0),  3>>,
       <<"S12", "Wed", Hr(9,0),  Hr(12,0), 4>>,
       <<"S13", "Wed", Hr(12,0), Hr(15,0), 4>>,
       <<"S14", "Wed", Hr(15,0), Hr(17,0), 4>>,
       <<"S15", "Wed", Hr(17,0), Hr(19,0), 3>>,
       <<"S16", "Thu", Hr(7,15), Hr(9,0),  3>>,
       <<"S17", "Thu", Hr(9,0),  Hr(12,0), 4>>,
       <<"S18", "Thu", Hr(12,0), Hr(15,0), 4>>,
       <<"S19", "Thu", Hr(15,0), Hr(17,0), 4>>,
       <<"S20", "Thu", Hr(17,0), Hr(19,0), 3>>,
       <<"S21", "Fri", Hr(7,15), Hr(9,0),  3>>,
       <<"S22", "Fri", Hr(9,0),  Hr(12,0), 4>>,
       <<"S23", "Fri", Hr(12,0), Hr(15,0), 4>>,
       <<"S24", "Fri", Hr(15,0), Hr(17,0), 4>>,
       <<"S25", "Sat", Hr(10,0), Hr(14,0), 2>>,
       <<"S26", "Sun", Hr(10,0), Hr(14,0), 2>> >>

DAY_ABBR_TO_COL ==
    [d \in {"Mon", "Tue", "Wed", "Thu", "Fri", "Sat", "Sun"} |->
        CASE d = "Mon" -> "MONDAY"
          [] d = "Tue" -> "TUESDAY"
          [] d = "Wed" -> "WEDNESDAY"
          [] d = "Thu" -> "THURSDAY"
          [] d = "Fri" -> "FRIDAY"
          [] d = "Sat" -> "SATURDAY"
          [] d = "Sun" -> "SUNDAY"]

Columns == {DAY_ABBR_TO_COL[d] : d \in DOMAIN DAY_ABBR_TO_COL}

\* The bounded instances run on a selection of SHIFTS, in catalog order.
RECURSIVE SelectShifts(_, _)
SelectShifts(idx, k) ==
    IF k > Len(SHIFTS) THEN <<>>
    ELSE (IF k \in idx THEN <<SHIFTS[k]>> ELSE <<>>) \o SelectShifts(idx, k + 1)

WeekendCatalog == SelectShifts({25, 26}, 1)
MondayCatalog  == SelectShifts({1, 2, 3, 4, 5}, 1)
CapCatalog     == SelectShifts({1, 2, 3, 7, 8, 25, 26}, 1)

Sid(sh) == <<sh[2], sh[3], sh[4]>>

(* ------------------------------------------------------------------ *)
(* Strings of the input: names are character tuples; an interval item   *)
(* is a token tuple (time tokens "HH:MM:SS", the separator "-", junk).  *)
(* ------------------------------------------------------------------ *)
NaN == <<"<NaN>">>

Upper(c) == CASE c = "a" -> "A" [] c = "n" -> "N" [] c = "b" -> "B"
              [] c = "o" -> "O" [] OTHER -> c
Lower(c) == CASE c = "A" -> "a" [] c = "N" -> "n" [] c = "B" -> "b"
              [] c = "O" -> "o" [] OTHER -> c
IsCased(c) == Upper(c) # Lower(c)

\* str.strip()
RECURSIVE LStrip(_)
LStrip(s) == IF s # <<>> /\ Head(s) = " " THEN LStrip(Tail(s)) ELSE s
RECURSIVE RStrip(_)
RStrip(s) == IF s # <<>> /\ s[Len(s)] = " " THEN RStrip(SubSeq(s, 1, Len(s) - 1)) ELSE s
Strip(s) == RStrip(LStrip(s))

\* str.title(): a cased character is upper-cased when it follows an uncased
\* one (or starts the string) and lower-cased otherwise.
Title(s) ==
    [i \in 1..Len(s) |->
        IF i = 1 \/ ~IsCased(s[i - 1]) THEN Upper(s[i]) ELSE Lower(s[i])]

\* str(value) of a name cell: NaN prints as "nan".
Str(v) == IF v = NaN THEN <<"n", "a", "n">> ELSE v

Normalize(v) == Title(Strip(Str(v)))

Tm(h, m, s) == [t |-> "time", h |-> h, m |-> m, s |-> s]
Dash == [t |-> "dash", h |-> 0, m |-> 0, s |-> 0]
Junk == [t |-> "junk", h |-> 0, m |-> 0, s |-> 0]

StrItem(toks) == [k |-> "str", toks |-> toks]
NumItem == [k |-> "num", toks |-> <<>>]
Interval(a, b) == StrItem(<<a, Dash, b>>)

\* A cell: a float NaN (empty cell), or text whose literal_eval either
\* fails, yields a scalar, or yields a list of items.
NaNCell == [kind |-> "nan", items |-> <<>>]
BadText == [kind |-> "badtext", items |-> <<>>]
ScalarText == [kind |-> "scalar", items |-> <<>>]
ListCell(items) == [kind |-> "list", items |-> items]

(* ------------------------------------------------------------------ *)
(* AvailMatrBuilder.py: _hhmm_to_float, _parse_ranges                   *)
(* ------------------------------------------------------------------ *)
\* datetime.strptime(s.strip(), "%H:%M:%S") accepts exactly one time token
\* with fields in range.
StrptimeOk(toks) ==
    /\ Len(toks) = 1
    /\ toks[1].t = "time"
    /\ toks[1].h \in 0..23
    /\ toks[1].m \in 0..59
    /\ toks[1].s \in 0..61

\* dt.hour + dt.minute / 60.0, in minutes; the seconds are dropped.
hhmm_to_float(toks) == toks[1].h * 60 + toks[1].m

HasDash(toks) == \E i \in 1..Len(toks) : toks[i] = Dash
FirstDash(toks) == SetMin({i \in 1..Len(toks) : toks[i] = Dash})
\* rng.split("-", 1)
SplitStart(toks) == SubSeq(toks, 1, FirstDash(toks) - 1)
SplitEnd(toks) == SubSeq(toks, FirstDash(toks) + 1, Len(toks))

NoError == "none"

\* The loop of _parse_ranges over items[i..]: the first item whose times do
\* not parse raises ValueError out of the function.
RECURSIVE ParseItems(_, _, _)
ParseItems(items, i, out) ==
    IF i > Len(items) THEN [err |-> NoError, out |-> out]
    ELSE LET rng == items[i] IN
         IF rng.k # "str" \/ ~HasDash(rng.toks)
         THEN ParseItems(items, i + 1, out)
         ELSE IF StrptimeOk(SplitStart(rng.toks)) /\ StrptimeOk(SplitEnd(rng.toks))
              THEN ParseItems(items, i + 1,
                      Append(out, <<hhmm_to_float(SplitStart(rng.toks)),
                                    hhmm_to_float(SplitEnd(rng.toks))>>))
              ELSE [err |-> "ValueError", out |-> <<>>]

parse_ranges(cell) ==
    CASE cell.kind = "nan"     -> [err |-> NoError, out |-> <<>>]
      [] cell.kind = "badtext" -> [err |-> NoError, out |-> <<>>]
      [] cell.kind = "scalar"  -> [err |-> "TypeError", out |-> <<>>]
      [] OTHER                 -> ParseItems(cell.items, 1, <<>>)

\* Faulty variant: the start and the end may be covered by different intervals.
IsAvailable_Union(parsed, start, end) ==
    /\ \E i \in 1..Len(parsed) : parsed[i][1] <= start /\ start < parsed[i][2]
    /\ \E j \in 1..Len(parsed) : parsed[j][1] < end /\ end <= parsed[j][2]

\* any(a <= start and end <= b for (a, b) in parsed)
IsAvailable(parsed, start, end) ==
    \E i \in 1..Len(parsed) : parsed[i][1] <= start /\ end <= parsed[i][2]

(* ------------------------------------------------------------------ *)
(* AvailMatrBuilder.py: load_input_from_excel                           *)
(* ------------------------------------------------------------------ *)
\* df[name_col].dropna().astype(str).str.strip().str.title().tolist()
RECURSIVE StudentList(_)
StudentList(rows) ==
    IF rows = <<>> THEN <<>>
    ELSE (IF Head(rows).name = NaN THEN <<>> ELSE <<Normalize(Head(rows).name)>>)
         \o StudentList(Tail(rows))

\* The inner loop of one row over SHIFTS[k..]: each shift parses its day's
\* cell (which may raise) and then stores into availability_matrix[student]
\* (KeyError when the student is no key of the matrix).
RECURSIVE RowLoop(_, _, _, _)
RowLoop(row, student, k, am) ==
    IF k > Len(catalog) THEN [err |-> NoError, am |-> am]
    ELSE LET sh == catalog[k]
             parsed == parse_ranges(row.cells[DAY_ABBR_TO_COL[sh[2]]])
         IN  IF parsed.err # NoError THEN [err |-> parsed.err, am |-> am]
             ELSE IF student \notin DOMAIN am THEN [err |-> "KeyError", am |-> am]
             ELSE RowLoop(row, student, k + 1,
                     [am EXCEPT ![student] =
                         (Sid(sh) :> (IF IsAvailable(parsed.out, sh[3], sh[4]) THEN 1 ELSE 0))
                         @@ @])

NoOutput == [kind |-> "empty", lines |-> <<>>, hours |-> <<>>, gap |-> <<0, 0>>,
             statusName |-> "none"]

\* lines 77-95: read the frame, the student list, the empty matrix
ReadStudents ==
    /\ pc = "start"
    /\ students' = StudentList(df)
    /\ availability_matrix' = [s \in Range(StudentList(df)) |-> <<>>]
    /\ rowIdx' = 1
    /\ pc' = "rows"
    /\ UNCHANGED <<df, catalog, error, status, x, total_hours, max_h, min_h, output>>

\* lines 98-104: one iteration of the iterrows loop
BuildRow ==
    /\ pc = "rows"
    /\ rowIdx <= Len(df)
    /\ LET row == df[rowIdx]
           res == RowLoop(row, Normalize(row.name), 1, availability_matrix)
       IN  /\ availability_matrix' = res.am
           /\ error' = res.err
           /\ pc' = IF res.err = NoError THEN "rows" ELSE "raised"
           /\ rowIdx' = IF res.err = NoError THEN rowIdx + 1 ELSE rowIdx
    /\ UNCHANGED <<df, catalog, students, status, x, total_hours, max_h, min_h, output>>

\* line 106, solver.py lines 19-22
LoadReturn ==
    /\ pc = "rows"
    /\ rowIdx > Len(df)
    /\ pc' = "loaded"
    /\ UNCHANGED <<df, catalog, rowIdx, students, availability_matrix, error,
                   status, x, total_hours, max_h, min_h, output>>

(* ------------------------------------------------------------------ *)
(* solver.py: configuration and precomputed maps                        *)
(* ------------------------------------------------------------------ *)
\* Faulty variant: a cap twice as large.
MAX_WEEKLY_HOURS_Doubled == 2 * 20

MAX_WEEKLY_HOURS == 20
ENFORCE_MAX_SHIFTS_PER_DAY == FALSE
MAX_SHIFTS_PER_DAY == 2
ENFORCE_MAX_DAILY_HOURS == FALSE
MAX_DAILY_HOURS == 8
SCALE == 4

\* int(round((end - start) * SCALE)), the times being minutes here
shift_lengths(sh) == ((sh[4] - sh[3]) * SCALE + 30) \div 60

ShiftIdx == 1..Len(catalog)
People == Range(students)

\* availability_matrix.get(s, {}).get(sid, 0)
Avail(s, sid) ==
    IF s \in DOMAIN availability_matrix /\ sid \in DOMAIN availability_matrix[s]
    THEN availability_matrix[s][sid] ELSE 0

(* ------------------------------------------------------------------ *)
(* solver.py: the CP-SAT model.  x[(sid, s)] is one Boolean per key, so *)
(* a value of x is, per shift of the catalog, the set of names whose    *)
(* variable is 1.                                                       *)
(* ------------------------------------------------------------------ *)
XVal(c, s) == IF s \in c THEN 1 ELSE 0

\* 1) sum(x[(sid, s)] for s in students) == required: the sum runs over the
\*    students list, entry by entry
CoverageOk(c, k) ==
    SumSeq([i \in 1..Len(students) |-> XVal(c, students[i])]) = catalog[k][5]

\* Faulty variant: the availability constraint is left out.
AvailabilityOk_Dropped(c, k) == TRUE

\* 2) availability == 0 forces x == 0
AvailabilityOk(c, k) ==
    \A s \in People : Avail(s, Sid(catalog[k])) = 0 => XVal(c, s) = 0

\* sum(x[(sid, s)] * shift_lengths[sid] for shifts)
LoadOf(xv, s) ==
    SumSeq([k \in 1..Len(xv) |-> XVal(xv[k], s) * shift_lengths(catalog[k])])

\* 3) weekly hour limit
WeeklyLimitOk(xv) ==
    \A s \in People : LoadOf(xv, s) <= MAX_WEEKLY_HOURS * SCALE

DaysOfCatalog == {catalog[k][2] : k \in ShiftIdx}

\* 4) optional: at most MAX_SHIFTS_PER_DAY shifts per day and student
DailyShiftsOk(xv) ==
    ENFORCE_MAX_SHIFTS_PER_DAY =>
        \A s \in People : \A d \in DaysOfCatalog :
            SumSeq([k \in 1..Len(xv) |->
                IF catalog[k][2] = d THEN XVal(xv[k], s) ELSE 0]) <= MAX_SHIFTS_PER_DAY

\* 5) optional: at most MAX_DAILY_HOURS hours per day and student
DailyHoursOk(xv) ==
    ENFORCE_MAX_DAILY_HOURS =>
        \A s \in People : \A d \in DaysOfCatalog :
            SumSeq([k \in 1..Len(xv) |->
                IF catalog[k][2] = d THEN XVal(xv[k], s) * shift_lengths(catalog[k])
                ELSE 0]) <= MAX_DAILY_HOURS * SCALE

\* 6) total_hours[s] is an IntVar of domain [0, MAX_WEEKLY_HOURS * SCALE]
\*    constrained equal to the student's load
TotalHoursOf(xv, s) == LoadOf(xv, s)
TotalHoursDomainOk(xv) ==
    \A s \in People : TotalHoursOf(xv, s) \in 0..(MAX_WEEKLY_HOURS * SCALE)

\* Faulty variant: the minimum runs over the people who work at all.
MinEquality_OverAssigned(vals) == IF vals \ {0} = {} THEN 0 ELSE SetMin(vals \ {0})

\* AddMaxEquality / AddMinEquality over total_hours.values()
MaxEquality(vals) == SetMax(vals)
MinEquality(vals) == SetMin(vals)

LoadValues(xv) == {TotalHoursOf(xv, s) : s \in People}
Objective(xv) == MaxEquality(LoadValues(xv)) - MinEquality(LoadValues(xv))

\* The per-shift constraints decide each shift's set on its own.
ShiftChoices(k) ==
    {c \in SUBSET People : CoverageOk(c, k) /\ AvailabilityOk(c, k)}

RECURSIVE PerShift(_)
PerShift(n) ==
    IF n = 0 THEN {<<>>}
    ELSE {Append(p, c) : p \in PerShift(n - 1), c \in ShiftChoices(n)}

\* All variable assignments that satisfy every constraint of the model.
Solutions ==
    IF students = <<>> THEN {}
    ELSE {xv \in PerShift(Len(catalog)) :
            /\ WeeklyLimitOk(xv)
            /\ DailyShiftsOk(xv)
            /\ DailyHoursOk(xv)
            /\ TotalHoursDomainOk(xv)}

\* model.Minimize(max_h - min_h)
Optimal(sols) ==
    IF sols = {} THEN {}
    ELSE LET best == SetMin({Objective(yv) : yv \in sols})
         IN  {xv \in sols : Objective(xv) = best}

\* What solver.Solve may return within its time limit: OPTIMAL with a
\* minimizer, FEASIBLE with any solution, INFEASIBLE when none exists,
\* UNKNOWN when the limit passes with nothing decided; a model over an
\* empty students list may also be rejected (MODEL_INVALID).
SolveOutcomes(sols) ==
    {<<"OPTIMAL", xv>> : xv \in Optimal(sols)}
    \cup {<<"FEASIBLE", xv>> : xv \in sols}
    \cup (IF sols = {} THEN {<<"INFEASIBLE", <<>> >>} ELSE {})
    \cup (IF students = <<>> THEN {<<"MODEL_INVALID", <<>> >>} ELSE {})
    \cup {<<"UNKNOWN", <<>> >>}

HasSolution(st) == st \in {"OPTIMAL", "FEASIBLE"}

\* solver.py lines 24-99: build the model and solve it
Solve ==
    /\ pc = "loaded"
    /\ \E o \in SolveOutcomes(Solutions) :
          /\ status' = o[1]
          /\ x' = o[2]
          /\ total_hours' = IF HasSolution(o[1])
                            THEN [s \in People |-> TotalHoursOf(o[2], s)] ELSE <<>>
          /\ max_h' = IF HasSolution(o[1]) THEN MaxEquality(LoadValues(o[2])) ELSE 0
          /\ min_h' = IF HasSolution(o[1]) THEN MinEquality(LoadValues(o[2])) ELSE 0
    /\ pc' = "solved"
    /\ UNCHANGED <<df, catalog, rowIdx, students, availability_matrix, error, output>>

(* ------------------------------------------------------------------ *)
(* solver.py: report                                                    *)
(* ------------------------------------------------------------------ *)
\* f"{v / SCALE:.2f}": whole hours and hundredths
Fmt2(ticks) == <<ticks \div SCALE, ((ticks % SCALE) * 100) \div SCALE>>

\* [s for s in students if solver.Value(x[(sid, s)]) == 1]
RECURSIVE AssignedList(_, _)
AssignedList(c, studs) ==
    IF studs = <<>> THEN <<>>
    ELSE (IF XVal(c, Head(studs)) = 1 THEN <<Head(studs)>> ELSE <<>>)
         \o AssignedList(c, Tail(studs))

ShiftLine(sh, c) ==
    [label |-> sh[1], day |-> sh[2], start |-> sh[3], end |-> sh[4],
     count |-> Len(AssignedList(c, students)), required |-> sh[5],
     assigned |-> AssignedList(c, students)]

\* Faulty variant: the gap line prints the maximum load.
ReportOutput_GapIsMax(st, xv, th, mx, mn) ==
    IF HasSolution(st)
    THEN [kind |-> "roster",
          lines |-> [k \in 1..Len(catalog) |-> ShiftLine(catalog[k], xv[k])],
          hours |-> [i \in 1..Len(students) |-> <<students[i], Fmt2(th[students[i]])>>],
          gap |-> Fmt2(mx),
          statusName |-> "none"]
    ELSE [kind |-> "no schedule", lines |-> <<>>, hours |-> <<>>, gap |-> <<0, 0>>,
          statusName |-> st]

ReportOutput(st, xv, th, mx, mn) ==
    IF HasSolution(st)
    THEN [kind |-> "roster",
          lines |-> [k \in 1..Len(catalog) |-> ShiftLine(catalog[k], xv[k])],
          hours |-> [i \in 1..Len(students) |-> <<students[i], Fmt2(th[students[i]])>>],
          gap |-> Fmt2(mx - mn),
          statusName |-> "none"]
    ELSE [kind |-> "no schedule", lines |-> <<>>, hours |-> <<>>, gap |-> <<0, 0>>,
          statusName |-> st]

\* solver.py lines 101-116
Report ==
    /\ pc = "solved"
    /\ output' = ReportOutput(status, x, total_hours, max_h, min_h)
    /\ pc' = "done"
    /\ UNCHANGED <<df, catalog, rowIdx, students, availability_matrix, error,
                   status, x, total_hours, max_h, min_h>>

Next == ReadStudents \/ BuildRow \/ LoadReturn \/ Solve \/ Report

(* ------------------------------------------------------------------ *)
(* Input frames of the bounded instances                                *)
(* ------------------------------------------------------------------ *)
Row(name, cells) == [name |-> name, cells |-> cells]

\* A row's cells: the given columns, every other column empty.
Cells(given) == [c \in Columns |-> IF c \in DOMAIN given THEN given[c] ELSE NaNCell]

Ann    == <<"a", "n", "n">>
AnnDup == <<" ", "A", "N", "N", " ">>
Bob    == <<"b", "o", "b">>

Bo     == <<"b", "o">>

Free(a, b) == ListCell(<<Interval(a, b)>>)

Start ==
    /\ pc = "start"
    /\ rowIdx = 0
    /\ students = <<>>
    /\ availability_matrix = <<>>
    /\ error = NoError
    /\ status = "none"
    /\ x = <<>>
    /\ total_hours = <<>>
    /\ max_h = 0
    /\ min_h = 0
    /\ output = NoOutput

\* Weekend catalog; three names and a second spelling of the first.
WeekendCells ==
    {Cells(("SATURDAY" :> sat) @@ ("SUNDAY" :> sun)) :
        sat \in {Free(Tm(10,0,0), Tm(14,0,0)), NaNCell},
        sun \in {Free(Tm(9,30,0), Tm(15,0,0)), NaNCell}}
WeekendRows == {Row(n, c) : n \in {Ann, AnnDup, Bob, Bo}, c \in WeekendCells}

Init ==
    /\ catalog = WeekendCatalog
    /\ df \in SeqsUpTo(WeekendRows, MaxRows)
    /\ Start

Spec == Init /\ [][Next]_vars

\* Monday catalog; one row with every cell shape, optionally a second row.
IngestItems ==
    {Interval(Tm(7,0,0), Tm(12,0,0)),
     Interval(Tm(7,0,0), Tm(8,0,0)),
     Interval(Tm(8,0,0), Tm(9,0,0)),
     Interval(Tm(7,15,30), Tm(9,0,0)),
     Interval(Tm(7,30,0), Tm(19,0,0)),
     StrItem(<<Tm(7,0,0)>>),
     StrItem(<<Tm(7,0,0), Dash, Tm(25,0,0)>>),
     NumItem}
IngestCells ==
    {NaNCell, BadText, ScalarText} \cup {ListCell(s) : s \in SeqsUpTo(IngestItems, MaxItems)}
IngestRows == {Row(n, Cells("MONDAY" :> c)) : n \in {Ann, Bob, NaN}, c \in IngestCells}
SecondRows ==
    {Row(n, Cells("MONDAY" :> c)) :
        n \in {AnnDup, Bob}, c \in {NaNCell, Free(Tm(9,0,0), Tm(17,0,0))}}

InitIngest ==
    /\ catalog = MondayCatalog
    /\ df \in {<<r>> : r \in IngestRows} \cup {<<r, q>> : r \in IngestRows, q \in SecondRows}
    /\ Start

SpecIngest == InitIngest /\ [][Next]_vars

\* Seven shifts whose lengths add up to more than the weekly cap; up to four
\* named people, each free all week, on weekdays only or at the weekend only.
CapNames == <<Ann, Bob, Bo, <<"n", "o", "a">> >>
WeekdayFree == Free(Tm(7,0,0), Tm(15,0,0))
WeekendFree == Free(Tm(10,0,0), Tm(14,0,0))
CapCells ==
    {Cells(("MONDAY" :> WeekdayFree) @@ ("TUESDAY" :> WeekdayFree)
           @@ ("SATURDAY" :> WeekendFree) @@ ("SUNDAY" :> WeekendFree)),
     Cells(("MONDAY" :> WeekdayFree) @@ ("TUESDAY" :> WeekdayFree)),
     Cells(("SATURDAY" :> WeekendFree) @@ ("SUNDAY" :> WeekendFree))}

InitCap ==
    /\ catalog = CapCatalog
    /\ \E n \in 1..Len(CapNames) :
          df \in {[i \in 1..n |-> Row(CapNames[i], f[i])] : f \in [1..n -> CapCells]}
    /\ Start

SpecCap == InitCap /\ [][Next]_vars

(* ------------------------------------------------------------------ *)
(* Properties                                                           *)
(* ------------------------------------------------------------------ *)
Reported == pc = "done" /\ output.kind = "roster"

\* Read back from the printed roster alone.
LineTicks(line) == (line.end - line.start) \div 15
RosterLoad(s) ==
    SumSeq([k \in 1..Len(output.lines) |->
        IF s \in Range(output.lines[k].assigned) THEN LineTicks(output.lines[k]) ELSE 0])
Hours2(ticks) == <<ticks \div 4, 25 * (ticks % 4)>>
NeverAssigned(s) == \A k \in 1..Len(output.lines) : s \notin Range(output.lines[k].assigned)

\* C1: in every reported roster the number of people assigned to a shift
\* equals the shift's required headcount.
C1_ExactHeadcount ==
    Reported =>
        \A k \in 1..Len(output.lines) :
            Cardinality(Range(output.lines[k].assigned)) = catalog[k][5]

\* C2: in every reported roster every assigned (person, shift) pair has
\* availability 1 in the matrix, and a person available for no shift is
\* assigned to none and is printed with 0.00 hours.
C2_AssignedOnlyIfAvailable ==
    Reported =>
        /\ \A k \in 1..Len(output.lines) : \A s \in Range(output.lines[k].assigned) :
              /\ s \in DOMAIN availability_matrix
              /\ Sid(catalog[k]) \in DOMAIN availability_matrix[s]
              /\ availability_matrix[s][Sid(catalog[k])] = 1
        /\ \A i \in 1..Len(students) :
              (\A k \in ShiftIdx : Avail(students[i], Sid(catalog[k])) = 0)
              => NeverAssigned(students[i]) /\ output.hours[i] = <<students[i], <<0, 0>> >>

C2_Witness ==
    /\ Reported
    /\ \E i \in 1..Len(students) :
          \A k \in ShiftIdx : Avail(students[i], Sid(catalog[k])) = 0
    /\ \A k \in 1..Len(output.lines) : output.lines[k].assigned # <<>>

\* C3: in every reported roster each person's total_hours equals the sum of
\* the quarter-hour lengths of the shifts the roster gives them, and is at
\* most 20 * 4 = 80.
C3_LoadIsSumAndCapped ==
    Reported =>
        \A i \in 1..Len(students) :
            /\ total_hours[students[i]] = RosterLoad(students[i])
            /\ output.hours[i] = <<students[i], Hours2(RosterLoad(students[i]))>>
            /\ RosterLoad(students[i]) <= 80

C3_Witness ==
    /\ Reported
    /\ \E s \in People : RosterLoad(s) = 80
    /\ \E s \in People : RosterLoad(s) < 80

\* C4: the reported fairness gap is the largest load minus the smallest
\* load over all people of the roster, unassigned people included, in hours.
C4_GapIsMaxMinusMin ==
    Reported =>
        output.gap = Hours2(SetMax({RosterLoad(s) : s \in People})
                            - SetMin({RosterLoad(s) : s \in People}))

C4_Witness ==
    /\ Reported
    /\ \E s \in People : NeverAssigned(s)
    /\ \E s \in People : ~NeverAssigned(s)
    /\ output.gap # <<0, 0>>

\* The rows already read, and the row that last wrote a person's entries.
Processed == 1..(rowIdx - 1)
LastRowOf(s) == df[SetMax({i \in Processed : Normalize(df[i].name) = s})]
HasRow(s) == \E i \in Processed : Normalize(df[i].name) = s
CellOf(row, sh) == row.cells[DAY_ABBR_TO_COL[sh[2]]]

\* C5: a person's entry for a shift [s, e) is 1 exactly when one parsed
\* interval [a, b) of the person's row for that day has a <= s and e <= b.
C5_SingleIntervalContainment ==
    pc \in {"rows", "loaded", "solved", "done"} =>
        \A s \in DOMAIN availability_matrix : HasRow(s) =>
            \A k \in ShiftIdx :
                LET parsed == parse_ranges(CellOf(LastRowOf(s), catalog[k])).out
                    sh == catalog[k]
                IN  /\ Sid(sh) \in DOMAIN availability_matrix[s]
                    /\ (availability_matrix[s][Sid(sh)] = 1)
                         <=> (\E i \in 1..Len(parsed) :
                                 parsed[i][1] <= sh[3] /\ sh[4] <= parsed[i][2])

C5_Witness ==
    /\ pc = "loaded"
    /\ \E s \in DOMAIN availability_matrix :
          /\ HasRow(s)
          /\ LastRowOf(s).cells["MONDAY"] =
                ListCell(<<Interval(Tm(7,0,0), Tm(8,0,0)), Interval(Tm(8,0,0), Tm(9,0,0))>>)
          /\ availability_matrix[s][<<"Mon", Hr(7,15), Hr(9,0)>>] = 0
    /\ \E s \in DOMAIN availability_matrix : \E k \in ShiftIdx :
          HasRow(s) /\ availability_matrix[s][Sid(catalog[k])] = 1

\* A text cell that is no list, or a list with an item that is no
\* "HH:MM:SS - HH:MM:SS" string.
WellFormedItem(it) ==
    /\ it.k = "str"
    /\ Len(it.toks) = 3
    /\ it.toks[2] = Dash
    /\ StrptimeOk(<<it.toks[1]>>)
    /\ StrptimeOk(<<it.toks[3]>>)
Malformed(cell) ==
    \/ cell.kind \in {"badtext", "scalar"}
    \/ cell.kind = "list" /\ \E i \in 1..Len(cell.items) : ~WellFormedItem(cell.items[i])

\* C6: a malformed cell never raises out of the ingestion and leaves the
\* person unavailable for every shift of that day.
C6_MalformedCellDegrades ==
    /\ error \notin {"ValueError", "TypeError"}
    /\ pc \in {"rows", "loaded", "solved", "done"} =>
          \A s \in DOMAIN availability_matrix : HasRow(s) =>
              \A k \in ShiftIdx :
                  Malformed(CellOf(LastRowOf(s), catalog[k]))
                  => Avail(s, Sid(catalog[k])) = 0

\* C7: no-solution outcomes print "no schedule" with the status and no
\* roster, and a FEASIBLE outcome prints something an OPTIMAL outcome with
\* the same values would not.
C7_OutcomesDistinguishable ==
    pc = "done" =>
        /\ status \in {"INFEASIBLE", "UNKNOWN", "MODEL_INVALID"}
              => output.kind = "no schedule" /\ output.statusName = status
                 /\ output.lines = <<>>
        /\ status = "FEASIBLE"
              => output # ReportOutput("OPTIMAL", x, total_hours, max_h, min_h)

\* C8: the people list holds each normalized name once, so a person is
\* in a shift's printed list at most once.
C8_UniquePeople ==
    /\ \A i, j \in 1..Len(students) : students[i] = students[j] => i = j
    /\ Reported =>
          \A k \in 1..Len(output.lines) :
              Len(output.lines[k].assigned) = Cardinality(Range(output.lines[k].assigned))

\* C9: a row without a name does not stop the ingestion: no KeyError, and
\* once loaded every named row has an entry for every shift.
C9_MissingNameRowSkipped ==
    /\ error # "KeyError"
    /\ pc = "loaded" =>
          \A i \in 1..Len(df) : df[i].name # NaN =>
              \A k \in ShiftIdx :
                  Sid(catalog[k]) \in DOMAIN availability_matrix[Normalize(df[i].name)]

TotalDemand == SumSeq([k \in ShiftIdx |-> catalog[k][5]])
TwoAlikePeople ==
    /\ Len(students) = 2
    /\ students[1] # students[2]
    /\ \A k \in ShiftIdx :
          Avail(students[1], Sid(catalog[k])) = Avail(students[2], Sid(catalog[k]))
    /\ TotalDemand % 2 = 0

====
